---- MODULE Spec2Model ----
(***************************************************************************)
(* kwuartboot: the boot-pattern handshake (send_boot_pattern) and the      *)
(* XMODEM sender (wait_for_nak, build_packet, send_packet, xmodem_send) of *)
(* src/kwuartboot.c as state machines.  The serial line and the file are   *)
(* the environment: every read, write and drain draws its outcome from a   *)
(* small set; `wire' records what the program handed to write().           *)
(***************************************************************************)
EXTENDS Integers, Sequences, FiniteSets, TLC

\* ------------------------------------------------------------- constants
SOH == 1
EOT == 4
ACK == 6
NAK == 21
CAN == 24
CRC_C == 67
PATTERN_SEND_INTERVAL == 50000
PATTERN_SEND_TIMEOUT == 20
ONE_SECOND_US == 1000000
RECEIVE_TIMEOUT == 60 * 1000000
MAX_RETRANS == 10
\* The timeout xmodem_send gives read_byte after a CAN (line 343) and after
\* an EOT (line 365), in microseconds
CanTimeout == 1
EotTimeout == 1
buflen == 128
PacketArray == 134

boot_pattern == <<187, 17, 34, 51, 68, 85, 102, 119>>

\* ---------------------------------------------------------------- bounds
\* Largest source, in blocks, sent over the unconstrained channel.
MaxBlocks == 1
\* Largest source, in blocks, sent over the lossy channel.
LossyBlocks == 2
\* Blocks of the long source sent over the acknowledging channel: the
\* sequence byte passes 255 and wraps.
WrapBlocks == 257
\* Largest overall timeout, in seconds, the handshake is called with.
MaxTimeout == 1
\* Seconds the clock may run past the handshake's overall timeout.
MaxOver == 1
\* Seconds the slow line takes to send one boot pattern.
SlowSeconds == 8

\* ------------------------------------------------------- the byte source
\* A source is [len, seed]; its byte at offset i (from 0) is FileByte.
FileByte(f, i) == (f.seed * i + (i \div 128) + (i \div 32768)) % 256

\* Lengths around every block boundary up to n blocks.
Lengths(n) ==
    {l \in 0..(n * buflen) :
        \E b \in 0..n : l \in {b * buflen - 1, b * buflen, b * buflen + 1}}

Files(lens, seeds) == {[len |-> l, seed |-> s] : l \in lens, s \in seeds}

\* What one read() may return at most (short reads).
Chunks == {50, buflen}

Min(a, b) == IF a < b THEN a ELSE b

\* read_block: read() until `rem' bytes are in or read() returns 0, then
\* zero the remainder.  read() hands over at most `chunk' bytes at a time.
\* The result is [tot, data, pos].
RECURSIVE ReadLoop(_, _, _, _, _)
ReadLoop(f, pos, rem, chunk, acc) ==
    LET got == Min(chunk, Min(rem, f.len - pos))
    IN  IF rem > 0 /\ got > 0
        THEN ReadLoop(f, pos + got, rem - got, chunk,
                      acc \o [j \in 1..got |-> FileByte(f, pos + j - 1)])
        ELSE [tot  |-> Len(acc),
              data |-> acc \o [j \in 1..rem |-> 0],
              pos  |-> pos]

\* The variant takes what the first read() gives and does not loop.
read_block_once(f, pos, size, chunk) ==
    LET got == Min(chunk, Min(size, f.len - pos))
    IN  [tot  |-> got,
         data |-> [j \in 1..size |->
                     IF j <= got THEN FileByte(f, pos + j - 1) ELSE 0],
         pos  |-> pos + got]

read_block(f, pos, size, chunk) == ReadLoop(f, pos, size, chunk, <<>>)

\* (unsigned char) of an int
U8(x) == x % 256

\* ~(unsigned char)x stored into an unsigned char: the operand is promoted
\* to int, complemented (-x - 1) and truncated.
NotU8(x) == U8(-(U8(x)) - 1)

\* chksum += packet[i] for i from lo to hi, in an unsigned char.  Addition
\* modulo 256 is associative, so the loop's running sum is taken by halves
\* (the evaluation stays shallow), truncating after every addition.
RECURSIVE SumU8(_, _, _)
SumU8(s, lo, hi) ==
    IF lo > hi THEN 0
    ELSE IF lo = hi THEN U8(s[lo])
    ELSE LET mid == (lo + hi) \div 2
         IN  U8(SumU8(s, lo, mid) + SumU8(s, mid + 1, hi))

\* Lines 252-254: the header for packet number pno.  The variant puts the
\* sequence after 255 at 1.
Header_wrap1(pno) ==
    <<SOH, ((pno - 1) % 255) + 1, NotU8(((pno - 1) % 255) + 1)>>

Header(pno) == <<SOH, U8(pno), NotU8(pno)>>

\* Lines 266-269: the checksum of pkt's payload of len bytes (array
\* indices 3..len+2).  The variant stops one byte early.
Checksum_short(pkt, len) == SumU8(pkt, 4, len + 2)

Checksum(pkt, len) == SumU8(pkt, 4, len + 3)

\* build_packet: header, payload from read_block, checksum.  res is 0
\* (built), 1 (end of source: header and payload written, checksum not)
\* or -1 (read error; ferr is the environment's choice).
build_packet(f, pos, pno, pkt, len, chunk, ferr) ==
    LET blk  == read_block(f, pos, len, chunk)
        fill == Header(pno) \o blk.data \o SubSeq(pkt, len + 4, Len(pkt))
    IN  IF ferr
        THEN [res |-> -1, packet |-> Header(pno) \o SubSeq(pkt, 4, Len(pkt)),
              pos |-> pos]
        ELSE IF blk.tot = 0
        THEN [res |-> 1, packet |-> fill, pos |-> blk.pos]
        ELSE [res |-> 0,
              packet |-> [fill EXCEPT ![len + 4] = Checksum(fill, len)],
              pos |-> blk.pos]

\* ------------------------------------------------------ the serial line
\* What read_byte returns: a byte, or -1 with errno ETIMEDOUT (select
\* returned 0) or with another errno.
Byte(b) == [v |-> b, err |-> "none"]
TIMEOUT == [v |-> -1, err |-> "ETIMEDOUT"]
IOERR   == [v |-> -1, err |-> "EIO"]

\* The answers the remote may give to a packet.
AllReads == {Byte(ACK), Byte(NAK), Byte(CAN), Byte(255), TIMEOUT, IOERR}
\* What may follow a CAN, and what may answer an EOT
CanReads == {Byte(CAN), Byte(NAK), TIMEOUT, IOERR}
EotReads == {Byte(ACK), Byte(NAK), TIMEOUT, IOERR}

\* What happens to one send_packet call: write_byte fails at index werr,
\* tcdrain fails after index derr (-1: never), and otherwise read_byte
\* answers rd.
Fate(w, d, r) == [werr |-> w, derr |-> d, rd |-> r]

\* A call read_byte(fd, us) made at `site'
ReadCall(site, us) == [site |-> site, us |-> us]

VARIABLES
    chan,        \* the remote's behaviour: "any", "ack", "lossy", "echo", "slow"
    file,        \* the source, [len, seed]
    fpos,        \* read offset of in_fd
    pc,          \* position in xmodem_send
    packet,      \* unsigned char packet[134]
    packetno, lastpacket, retry, c,
    ret,         \* <<>> until xmodem_send returns, then <<value>>
    wire,        \* every write to tty_fd so far, [op, bytes], in order
    first,       \* what wait_for_nak's first read_byte returned, <<>> before
    resp,        \* what send_packet returned for the last packet, <<>> before
    onlyTimeout, \* every send_packet so far ended in a read timeout
    failAt,      \* Len(wire) when a packet first failed to go out or
                 \* its answer failed to come in with an I/O error; 0 before
    bpc,         \* position in send_boot_pattern
    timeout,     \* its parameter, seconds (main passes PATTERN_SEND_TIMEOUT)
    t,           \* time since the epoch second the program started in, in
                 \* units of PATTERN_SEND_INTERVAL
    start, now,  \* time_t start, now
    done,
    bret,        \* <<>> until send_boot_pattern returns, then <<value>>
    rxq,         \* bytes the echoing remote has put on the line, unread
    unexpected,  \* a "*." was printed
    bootc,       \* send_boot_pattern's c
    wrote,       \* send_boot_pattern's wrote, <<>> before the first write()
    drained,     \* what its last tcdrain returned, <<>> before
    lastread,    \* the last read_byte call: where it was made and the timeout
                 \* it was given, in microseconds
    mpc,         \* position in main
    tty_fd, file_fd  \* main's descriptors: "none", "open", "closed", "failed"

svars == <<file, fpos, pc, packet, packetno, lastpacket, retry, c,
           ret, first, resp, onlyTimeout, failAt>>

bvars == <<bpc, timeout, t, start, now, done, bret, rxq, unexpected, bootc,
           wrote, drained>>

mvars == <<mpc, tty_fd, file_fd>>

vars == <<chan, wire, lastread, svars, bvars, mvars>>

\* "any" is the remote and line that may do anything; "ack" answers NAK to
\* the initial wait and ACK to every packet and EOT; "lossy" does so too but
\* may answer a packet with NAK or not at all; "echo" is the handshake's
\* remote that echoes the pattern (BootWrite, BootRead); "slow" is a line
\* that sends slowly to a remote that is silent or answers NAK, then ACK.
NakReads ==
    IF chan = "any"
    THEN AllReads \cup {Byte(0), Byte(EOT), Byte(CRC_C)}
    ELSE IF chan = "slow" THEN {Byte(NAK), TIMEOUT}
    ELSE {Byte(NAK)}
FinReads == IF chan = "any" THEN EotReads ELSE {Byte(ACK)}
\* Whether read() of the source fails
FileErrs == IF chan = "any" THEN BOOLEAN ELSE {FALSE}

Fates ==
    IF chan \in {"ack", "slow"}
    THEN {Fate(-1, -1, Byte(ACK))}
    ELSE IF chan = "lossy"
    THEN {Fate(-1, -1, r) : r \in {Byte(ACK), Byte(NAK), TIMEOUT}}
    ELSE {Fate(-1, -1, r) : r \in AllReads}
         \cup {Fate(buflen + 3, -1, TIMEOUT), Fate(-1, 8, TIMEOUT)}

\* An element of an automatic array that was never assigned: no byte.
Indeterminate == -1

InitSender(files, mode) ==
    /\ chan = mode
    /\ file \in files
    /\ fpos = 0
    /\ pc = "start"
    /\ packet = [i \in 1..PacketArray |-> Indeterminate]
    /\ packetno = 0 /\ lastpacket = 0 /\ retry = 0 /\ c = 0
    /\ ret = <<>>
    /\ wire = <<>>
    /\ first = <<>>
    /\ resp = <<>>
    /\ onlyTimeout = TRUE
    /\ failAt = 0
    /\ lastread = ReadCall("none", 0)
    /\ bpc = "idle" /\ timeout = 0 /\ t = 0 /\ start = 0 /\ now = 0
    /\ done = 0 /\ bret = <<>> /\ rxq = <<>> /\ unexpected = FALSE
    /\ bootc = 0 /\ wrote = <<>> /\ drained = <<>>
    /\ mpc = "idle" /\ tty_fd = "open" /\ file_fd = "open"

\* write_byte(fd, b) whose result the caller ignores.  The variant does not
\* write.
WriteByte_skip(w, b) == w

WriteByte(w, b) == Append(w, [op |-> "byte", bytes |-> <<b>>])

\* cancel_send: three CAN bytes in one write, then drain and flush.  The
\* variant sends one.
cancel_send_one(w) == Append(w, [op |-> "cancel", bytes |-> <<CAN>>])

cancel_send(w) == Append(w, [op |-> "cancel", bytes |-> <<CAN, CAN, CAN>>])

Return(v) == pc' = "ret" /\ ret' = <<v>>

\* wait_for_nak as called at the top of xmodem_send, then the loop's
\* initialisation.
WaitForNak ==
    /\ pc = "start"
    /\ \E r \in NakReads :
         /\ first' = <<r.v>>
         /\ lastread' = IF r.v = CAN
                        THEN ReadCall("wait_for_nak_can", ONE_SECOND_US)
                        ELSE ReadCall("wait_for_nak", RECEIVE_TIMEOUT)
         /\ IF r.v = -1 \/ r.v = CRC_C
            THEN Return(-1) /\ UNCHANGED <<wire, lastpacket, packetno, retry>>
            ELSE IF r.v = NAK
            THEN /\ pc' = "loop" /\ lastpacket' = 0 /\ packetno' = 1 /\ retry' = 0
                 /\ UNCHANGED <<wire, ret>>
            ELSE IF r.v = CAN
            THEN \E r2 \in CanReads :
                   IF r2.v = CAN
                   THEN /\ wire' = WriteByte(wire, ACK)
                        /\ Return(-1)
                        /\ UNCHANGED <<lastpacket, packetno, retry>>
                   ELSE /\ pc' = "loop" /\ lastpacket' = 0 /\ packetno' = 1
                        /\ retry' = 0
                        /\ UNCHANGED <<wire, ret>>
            ELSE /\ wire' = cancel_send(wire)
                 /\ Return(-1)
                 /\ UNCHANGED <<lastpacket, packetno, retry>>
    /\ UNCHANGED <<chan, file, fpos, packet, c, resp, onlyTimeout, failAt, bvars, mvars>>

\* send_packet: write_byte each byte, tcdrain after every 8th, then
\* read_byte.  The result is [c, err, out, read]: the return value, errno
\* when it is -1, the bytes that went out, and whether read_byte was called.
RECURSIVE SendLoop(_, _, _, _, _)
SendLoop(pkt, len, i, fate, out) ==
    \* i is a multiple of 8: byte i is written and drained, bytes i+1..i+7
    \* are written
    LET hi == Min(i + 8, len)
    IN  IF i >= len
        THEN [c |-> fate.rd.v, err |-> fate.rd.err, out |-> out, read |-> TRUE]
        ELSE IF fate.werr = i
        THEN [c |-> -1, err |-> "EIO", out |-> out, read |-> FALSE]
        ELSE IF fate.derr = i
        THEN [c |-> -1, err |-> "EIO", out |-> Append(out, pkt[i + 1]),
              read |-> FALSE]
        ELSE IF fate.werr > i /\ fate.werr < hi
        THEN [c |-> -1, err |-> "EIO",
              out |-> out \o SubSeq(pkt, i + 1, fate.werr), read |-> FALSE]
        ELSE SendLoop(pkt, len, hi, fate, out \o SubSeq(pkt, i + 1, hi))

send_packet(pkt, len, fate) == SendLoop(pkt, len, 0, fate, <<>>)

SendEvent(s) == [op |-> "packet", bytes |-> s.out]

\* The test of both for loops, lines 314 and 362.  The variant never ends
\* a loop by count.
LoopTest_always(r) == TRUE

LoopTest(r) == r < MAX_RETRANS

\* What the switch of lines 336-353 makes of packetno when send_packet
\* returned ch.  The variant moves on at NAK too.
NextPacketno_nak(ch, pno) == IF ch \in {ACK, NAK} THEN pno + 1 ELSE pno

NextPacketno(ch, pno) == IF ch = ACK THEN pno + 1 ELSE pno

\* The variant reads the next block for every transmission.
BuildOrKeep_always(chunk, ferr) ==
    build_packet(file, fpos, packetno, packet, buflen, chunk, ferr)

\* Lines 317-324: build the packet if packetno is new, else keep it.
BuildOrKeep(chunk, ferr) ==
    IF packetno # lastpacket
    THEN build_packet(file, fpos, packetno, packet, buflen, chunk, ferr)
    ELSE [res |-> 0, packet |-> packet, pos |-> fpos]

\* One iteration of the sending loop, lines 314-354, for a given choice of
\* the environment: b is what BuildOrKeep gave (with the read() chunk size
\* and file read error chosen), fate is send_packet's, r2 the byte that
\* follows a CAN.  `next' is where control goes: "loop" (++retry and the
\* test), "finish" (break) or "ret".
Iteration(b, fate, r2) ==
    LET build == packetno # lastpacket
        pkt   == b.packet
        pos   == b.pos
        s     == send_packet(pkt, buflen + 4, fate)
        sent  == Append(wire, SendEvent(s))
        base  == [next |-> "loop", ret |-> ret, packet |-> pkt, fpos |-> pos,
                  lastpacket |-> packetno,
                  packetno |-> NextPacketno(s.c, packetno),
                  retry |-> retry + 1, c |-> s.c, wire |-> sent,
                  resp |-> <<s.c>>, timeout |-> FALSE, fail |-> FALSE,
                  read |-> IF s.read
                           THEN ReadCall("send_packet", RECEIVE_TIMEOUT)
                           ELSE lastread]
    IN  IF build /\ b.res = -1
        THEN [base EXCEPT !.next = "ret", !.ret = <<-1>>, !.retry = retry,
                          !.lastpacket = lastpacket, !.packetno = packetno, !.c = c, !.wire = wire,
                          !.resp = resp, !.timeout = onlyTimeout,
                          !.read = lastread]
        ELSE IF build /\ b.res = 1
        THEN [base EXCEPT !.next = "finish", !.retry = retry,
                          !.lastpacket = lastpacket, !.packetno = packetno, !.c = c, !.wire = wire,
                          !.resp = resp, !.timeout = onlyTimeout,
                          !.read = lastread]
        ELSE IF s.c = -1
        THEN IF s.err = "ETIMEDOUT"
             THEN [base EXCEPT !.timeout = onlyTimeout]
             ELSE [base EXCEPT !.next = "finish", !.retry = retry, !.fail = TRUE]
        ELSE IF s.c = ACK
        THEN [base EXCEPT !.retry = 0 + 1]
        ELSE IF s.c = CAN
        THEN IF r2.v = CAN
             THEN [base EXCEPT !.next = "ret", !.ret = <<-1>>, !.retry = retry,
                               !.c = r2.v, !.wire = WriteByte(sent, ACK),
                               !.read = ReadCall("loop_can", CanTimeout)]
             ELSE [base EXCEPT !.c = r2.v,
                               !.read = ReadCall("loop_can", CanTimeout)]
        ELSE base

\* Line 314: the sending loop goes round once more.
LoopGuard == pc = "loop" /\ LoopTest(retry)

LoopIter ==
    /\ LoopGuard
    /\ \E chunk \in (IF packetno # lastpacket THEN Chunks ELSE {buflen}),
          ferr \in (IF packetno # lastpacket THEN FileErrs ELSE {FALSE}) :
       LET b == BuildOrKeep(chunk, ferr)
       IN  \E fate \in Fates :
           \E r2 \in (IF fate.rd.v = CAN THEN CanReads ELSE {TIMEOUT}) :
            LET n == Iteration(b, fate, r2)
            IN  /\ pc' = n.next
                /\ ret' = n.ret
                /\ packet' = n.packet
                /\ fpos' = n.fpos
                /\ lastpacket' = n.lastpacket
                /\ packetno' = n.packetno
                /\ retry' = IF n.next = "finish" THEN 0 ELSE n.retry
                /\ c' = n.c
                /\ wire' = n.wire
                /\ resp' = n.resp
                /\ lastread' = n.read
                /\ onlyTimeout' = n.timeout
                /\ failAt' = IF n.fail /\ failAt = 0 THEN Len(n.wire) ELSE failAt
    /\ UNCHANGED <<chan, file, first, bvars, mvars>>

\* The variant gives up without telling the remote.
RetryExhausted_silent ==
    /\ pc = "loop"
    /\ ~LoopTest(retry) /\ retry = MAX_RETRANS
    /\ Return(-1)
    /\ UNCHANGED <<chan, wire, lastread, file, fpos, packet, packetno,
                   lastpacket, retry, c, first, resp, onlyTimeout, failAt, bvars, mvars>>

\* Lines 355-359: the loop ran out of retries.
RetryExhausted ==
    /\ pc = "loop"
    /\ ~LoopTest(retry) /\ retry = MAX_RETRANS
    /\ wire' = cancel_send(wire)
    /\ Return(-1)
    /\ UNCHANGED <<chan, lastread, file, fpos, packet, packetno, lastpacket, retry, c,
                   first, resp, onlyTimeout, failAt, bvars, mvars>>

\* The variant does not leave the loop on ACK.
FinishIter_nobreak ==
    /\ pc = "finish"
    /\ LoopTest(retry)
    /\ \E r \in FinReads :
         /\ c' = r.v
         /\ wire' = WriteByte(wire, EOT)
         /\ lastread' = ReadCall("finishing", EotTimeout)
         /\ pc' = "finish" /\ retry' = retry + 1
    /\ UNCHANGED <<chan, file, fpos, packet, packetno, lastpacket, ret,
                   first, resp, onlyTimeout, failAt, bvars, mvars>>

\* Lines 362-367: one iteration of the Finishing loop.
FinishIter ==
    /\ pc = "finish"
    /\ LoopTest(retry)
    /\ \E r \in FinReads :
         /\ c' = r.v
         /\ wire' = WriteByte(wire, EOT)
         /\ lastread' = ReadCall("finishing", EotTimeout)
         /\ IF r.v = ACK
            THEN pc' = "end" /\ retry' = retry
            ELSE pc' = "finish" /\ retry' = retry + 1
    /\ UNCHANGED <<chan, file, fpos, packet, packetno, lastpacket, ret,
                   first, resp, onlyTimeout, failAt, bvars, mvars>>

\* Lines 369-374: the loop is over, c decides.
FinishEnd ==
    /\ \/ pc = "end"
       \/ pc = "finish" /\ ~LoopTest(retry)
    /\ Return(IF c # ACK THEN -1 ELSE 0)
    /\ UNCHANGED <<chan, lastread, file, fpos, packet, packetno, lastpacket, retry, c,
                   wire, first, resp, onlyTimeout, failAt, bvars, mvars>>

\* ------------------------------------------------- send_boot_pattern
TicksPerSecond == ONE_SECOND_US \div PATTERN_SEND_INTERVAL

\* time(NULL), relative to the epoch second the program started in
Time(ticks) == ticks \div TicksPerSecond

\* How long write and tcdrain together may block, in ticks, and how long a
\* read_byte that returns a byte (select allows it one interval)
Delays == {0, 1, TicksPerSecond}
ReadDelays == {0, 1}

MaxTicks == (timeout + MaxOver + 1) * TicksPerSecond

\* What read_byte may return to the handshake: the NAK, a byte of the
\* boot pattern, another byte, a timeout, an error.
BootReads == {Byte(NAK), Byte(boot_pattern[1]), Byte(boot_pattern[8]),
              Byte(0), TIMEOUT, IOERR}

\* memchr(boot_pattern, c, sizeof(boot_pattern)) != NULL.  The variant
\* looks at the first byte only.
InBootPattern_first(b) == boot_pattern[1] = b

InBootPattern(b) == \E i \in 1..Len(boot_pattern) : boot_pattern[i] = b

BootReturn(v) == bpc' = "ret" /\ bret' = <<v>>

\* What write() of the pattern and tcdrain() may return, and how long the
\* two may block together, in ticks.  The "slow" line takes SlowSeconds.
WriteResults ==
    IF chan = "echo" THEN {Len(boot_pattern)} ELSE {-1, 3, Len(boot_pattern)}
DrainResults == IF chan = "echo" THEN {0} ELSE {0, -1}
WriteDelays ==
    IF chan = "slow" THEN {SlowSeconds * TicksPerSecond} ELSE Delays

\* What read_byte may return now, and how long a read that returns a byte
\* may take.  The echoing remote's bytes are waiting in rxq; the "slow"
\* remote sends nothing but NAK.
ReadsNow ==
    IF chan = "echo"
    THEN (IF rxq = <<>> THEN {TIMEOUT} ELSE {Byte(Head(rxq))})
    ELSE IF chan = "slow" THEN {Byte(NAK), TIMEOUT, IOERR}
    ELSE BootReads
ByteDelays == IF chan = "echo" THEN {0} ELSE ReadDelays

\* The clock d ticks on.  Past MaxTicks every time(NULL) is more than
\* `timeout' seconds after `start', so the clock is not followed further.
Later(d) == Min(t + d, MaxTicks)

\* Lines 154-162: note the time, flush the line.
BootStart ==
    /\ bpc = "start"
    /\ start' = Time(t)
    /\ rxq' = <<>>
    /\ done' = 0
    /\ bpc' = "write"
    /\ UNCHANGED <<chan, wire, lastread, svars, mvars, timeout, t, now, bret,
                   unexpected, bootc, wrote, drained>>

\* What the echoing remote puts on the line when the n-th pattern is out
Echo(n) == IF n = 3 THEN boot_pattern \o <<NAK>> ELSE boot_pattern

PatternsOut == Cardinality({i \in 1..Len(wire) : wire[i].op = "pattern"})

\* Lines 164-173: write the pattern and drain.  wr is what write()
\* returned, dr what tcdrain() returned.  The assert of line 169 ends the
\* process when the write was short: "abort".
BootWrite ==
    /\ bpc = "write"
    /\ \E wr \in WriteResults, dr \in DrainResults, d \in WriteDelays :
         /\ t' = Later(d)
         /\ wrote' = <<wr>>
         /\ IF wr = -1
            THEN BootReturn(-1) /\ UNCHANGED <<wire, rxq, drained>>
            ELSE /\ wire' = Append(wire, [op |-> "pattern",
                                          bytes |-> SubSeq(boot_pattern, 1, wr)])
                 /\ IF wr # Len(boot_pattern)
                    THEN bpc' = "abort" /\ UNCHANGED <<bret, rxq, drained>>
                    ELSE /\ rxq' = IF chan = "echo"
                                   THEN rxq \o Echo(PatternsOut + 1)
                                   ELSE rxq
                         /\ drained' = <<dr>>
                         /\ IF dr < 0
                            THEN BootReturn(-1)
                            ELSE bpc' = "read" /\ UNCHANGED bret
    /\ UNCHANGED <<chan, lastread, svars, mvars, timeout, start, now, done,
                   unexpected, bootc>>

\* Lines 177-193: one read_byte of the inner loop.
BootRead ==
    /\ bpc = "read"
    /\ \E r \in ReadsNow, d \in ByteDelays :
         LET dt == IF r = TIMEOUT THEN 1 ELSE d
         IN  /\ t' = Later(dt)
             /\ rxq' = IF rxq = <<>> THEN rxq ELSE Tail(rxq)
             /\ bootc' = r.v
             /\ lastread' = ReadCall("send_boot_pattern", PATTERN_SEND_INTERVAL)
             /\ IF r.v = -1
                THEN /\ IF r.err = "ETIMEDOUT"
                        THEN bpc' = "check" /\ UNCHANGED bret
                        ELSE BootReturn(-1)
                     /\ UNCHANGED <<done, unexpected>>
                ELSE IF r.v = NAK
                THEN /\ done' = 1
                     /\ bpc' = "check"
                     /\ UNCHANGED <<bret, unexpected>>
                ELSE /\ unexpected' = (unexpected \/ ~InBootPattern(r.v))
                     /\ UNCHANGED <<bpc, bret, done>>
    /\ UNCHANGED <<chan, wire, svars, mvars, timeout, start, now, wrote, drained>>

\* Lines 197-205: the timeout check that follows the inner loop, and the
\* outer loop's test.
BootCheck ==
    /\ bpc = "check"
    /\ now' = Time(t)
    /\ IF now' - start > timeout
       THEN BootReturn(1)
       ELSE IF done # 0
       THEN BootReturn(0)
       ELSE bpc' = "write" /\ UNCHANGED bret
    /\ UNCHANGED <<chan, wire, lastread, svars, mvars, timeout, t, start, done,
                   rxq, unexpected, bootc, wrote, drained>>

InitBootWith(mode) ==
    /\ chan = mode
    /\ wire = <<>>
    /\ lastread = ReadCall("none", 0)
    /\ file = [len |-> 0, seed |-> 0]
    /\ fpos = 0
    /\ pc = "idle"
    /\ packet = [i \in 1..PacketArray |-> Indeterminate]
    /\ packetno = 0 /\ lastpacket = 0 /\ retry = 0 /\ c = 0
    /\ ret = <<>> /\ first = <<>> /\ resp = <<>>
    /\ onlyTimeout = TRUE /\ failAt = 0
    /\ bpc = "start"
    /\ timeout \in 0..MaxTimeout
    /\ t \in {0, TicksPerSecond - 1}
    /\ start = 0 /\ now = 0 /\ done = 0
    /\ bret = <<>> /\ rxq = <<>> /\ unexpected = FALSE
    /\ bootc = 0 /\ wrote = <<>> /\ drained = <<>>
    /\ mpc = "idle" /\ tty_fd = "open" /\ file_fd = "open"

InitBoot == InitBootWith("any")

NextBoot == BootStart \/ BootWrite \/ BootRead \/ BootCheck

SpecBoot == InitBoot /\ [][NextBoot]_vars

\* The handshake against a remote that echoes every pattern byte and sends
\* NAK after the third pattern.
InitEcho == InitBootWith("echo")

SpecEcho == InitEcho /\ [][NextBoot]_vars

\* The handshake as a running program: every call it makes returns (the
\* program is single-threaded and each of its steps is one blocking call
\* with a deadline), and the clock goes on for as long as the model
\* follows it.
Tick == NextBoot /\ t' > t

SpecBootLive ==
    /\ InitBoot /\ [][NextBoot]_vars
    /\ WF_vars(BootStart) /\ WF_vars(BootWrite)
    /\ WF_vars(BootRead) /\ WF_vars(BootCheck)
    /\ SF_vars(Tick)

\* The empty source and one that ends a byte short of MaxBlocks blocks.
Init == InitSender(Files({0, MaxBlocks * buflen - 1}, {255}), "any")

Next == WaitForNak \/ LoopIter \/ RetryExhausted \/ FinishIter \/ FinishEnd

Spec == Init /\ [][Next]_vars

\* The long source and sources of a few blocks, over the remote that
\* answers NAK, then ACK to everything.
AckFiles ==
    Files(Lengths(3), {0, 1, 255})
        \cup {[len |-> WrapBlocks * buflen - 5, seed |-> 1]}

InitAck == InitSender(AckFiles, "ack")

NextAck == WaitForNak \/ LoopIter \/ FinishIter \/ FinishEnd

SpecAck == InitAck /\ [][NextAck]_vars

\* Sources that end in a short block or on a block boundary, over the
\* remote that loses or rejects packets.
InitLossy ==
    InitSender({[len |-> LossyBlocks * buflen - 3, seed |-> 255],
                [len |-> LossyBlocks * buflen, seed |-> 1]},
               "lossy")

SpecLossy == InitLossy /\ [][Next]_vars

\* The sender as a running program: every write, drain and timed read it
\* makes returns, so it always takes its next step.
\* LoopIter can be taken exactly where LoopGuard holds (its choices are
\* never empty) and every step from there is a LoopIter step that changes
\* retry or pc, so the last conjunct is WF_vars(LoopIter) written out.
SpecLive ==
    /\ Init /\ [][Next]_vars
    /\ WF_vars(WaitForNak) /\ WF_vars(RetryExhausted)
    /\ WF_vars(FinishIter) /\ WF_vars(FinishEnd)
    /\ ([]<>(~LoopGuard) \/ []<><<LoopGuard>>_vars)

\* ------------------------------------------------------------- main
\* Lines 402-410: open the serial device; exit(1) if that fails.
MainOpenTty ==
    /\ mpc = "open_tty"
    /\ \E ok \in BOOLEAN :
         IF ok
         THEN tty_fd' = "open" /\ mpc' = "open_file"
         ELSE tty_fd' = "failed" /\ mpc' = "exit"
    /\ UNCHANGED <<chan, wire, lastread, svars, bvars, file_fd>>

\* Lines 412-416: open the file; exit(1) if that fails.
MainOpenFile ==
    /\ mpc = "open_file"
    /\ \E ok \in BOOLEAN :
         IF ok
         THEN file_fd' = "open" /\ mpc' = "call_boot"
         ELSE file_fd' = "failed" /\ mpc' = "exit"
    /\ UNCHANGED <<chan, wire, lastread, svars, bvars, tty_fd>>

\* Line 418: the call send_boot_pattern(tty_fd, PATTERN_SEND_TIMEOUT).
MainCallBoot ==
    /\ mpc = "call_boot"
    /\ bpc' = "start"
    /\ timeout' = PATTERN_SEND_TIMEOUT
    /\ mpc' = "boot"
    /\ UNCHANGED <<chan, wire, lastread, svars, tty_fd, file_fd, t, start, now,
                   done, bret, rxq, unexpected, bootc, wrote, drained>>

\* Lines 419-427: the switch on what send_boot_pattern returned; on 0 the
\* call of xmodem_send.
MainSwitch ==
    /\ mpc = "boot"
    /\ bpc = "ret"
    /\ IF bret = <<0>>
       THEN pc' = "start" /\ mpc' = "send"
       ELSE pc' = pc /\ mpc' = "close"
    /\ UNCHANGED <<chan, wire, lastread, bvars, tty_fd, file_fd, file, fpos,
                   packet, packetno, lastpacket, retry, c, ret, first, resp,
                   onlyTimeout, failAt>>

\* Lines 429-432: after the switch (xmodem_send's result is not looked at)
\* close both descriptors and return 0.
MainClose ==
    /\ \/ mpc = "close"
       \/ mpc = "send" /\ pc = "ret"
    /\ tty_fd' = "closed"
    /\ file_fd' = "closed"
    /\ mpc' = "returned"
    /\ UNCHANGED <<chan, wire, lastread, svars, bvars>>

\* The program over the slow line, with an empty source and one of a block.
InitMain ==
    /\ chan = "slow"
    /\ wire = <<>>
    /\ lastread = ReadCall("none", 0)
    /\ file \in Files({0, buflen - 1}, {255})
    /\ fpos = 0
    /\ pc = "idle"
    /\ packet = [i \in 1..PacketArray |-> Indeterminate]
    /\ packetno = 0 /\ lastpacket = 0 /\ retry = 0 /\ c = 0
    /\ ret = <<>> /\ first = <<>> /\ resp = <<>>
    /\ onlyTimeout = TRUE /\ failAt = 0
    /\ bpc = "idle" /\ timeout = 0
    /\ t \in {0, TicksPerSecond - 1}
    /\ start = 0 /\ now = 0 /\ done = 0
    /\ bret = <<>> /\ rxq = <<>> /\ unexpected = FALSE
    /\ bootc = 0 /\ wrote = <<>> /\ drained = <<>>
    /\ mpc = "open_tty" /\ tty_fd = "none" /\ file_fd = "none"

NextMain ==
    \/ MainOpenTty \/ MainOpenFile \/ MainCallBoot \/ MainSwitch \/ MainClose
    \/ BootStart \/ BootWrite \/ BootRead \/ BootCheck
    \/ WaitForNak \/ LoopIter \/ FinishIter \/ FinishEnd

SpecMain == InitMain /\ [][NextMain]_vars

\* ============================================================== claims
\* What the claims speak of, stated without the code's own operators.
NBlocks(f) == (f.len + buflen - 1) \div buflen

\* The k-th block of the source (k from 1), padded with zeroes
Block(f, k) ==
    [j \in 1..buflen |->
        IF (k - 1) * buflen + j - 1 < f.len
        THEN FileByte(f, (k - 1) * buflen + j - 1)
        ELSE 0]

RECURSIVE PlainSum(_, _, _)
PlainSum(s, lo, hi) ==
    IF lo > hi THEN 0
    ELSE IF lo = hi THEN s[lo]
    ELSE PlainSum(s, lo, (lo + hi) \div 2) + PlainSum(s, (lo + hi) \div 2 + 1, hi)

\* [SOH][seq][255 - seq][128 payload bytes][sum of the payload mod 256]
WellFormed(p) ==
    /\ Len(p) = buflen + 4
    /\ p[1] = SOH
    /\ p[2] \in 0..255
    /\ p[3] = 255 - p[2]
    /\ \A j \in 4..(buflen + 3) : p[j] \in 0..255
    /\ p[buflen + 4] = PlainSum(p, 4, buflen + 3) % 256

\* The packet that carries the k-th block
ExpectedPacket(f, k) ==
    <<SOH, k % 256, 255 - (k % 256)>> \o Block(f, k)
        \o <<PlainSum(Block(f, k), 1, buflen) % 256>>

Packets == SelectSeq(wire, LAMBDA e : e.op = "packet")
Count(o, b) ==
    Cardinality({i \in 1..Len(wire) : wire[i].op = o /\ wire[i].bytes = b})
Returned == pc = "ret"

\* C1: over the remote that answers the initial wait with NAK and every
\* packet with ACK, the newest packet on the wire, the k-th, carries
\* sequence byte k mod 256 and the k-th block of the source; and when the
\* sender has returned, the packets on the wire are one per block, the
\* k-th carrying sequence byte k mod 256 and the k-th block.
C1_EachBlockOnceInOrder ==
    LET P == Packets
        n == Len(P)
    IN  /\ n <= NBlocks(file)
        /\ n > 0 => P[n].bytes[2] = n % 256 /\ P[n].bytes = ExpectedPacket(file, n)
        /\ pc \in {"finish", "end", "ret"} => n = NBlocks(file)
        /\ Returned =>
             \A k \in 1..n :
                 /\ P[k].bytes[2] = k % 256
                 /\ P[k].bytes = ExpectedPacket(file, k)

C1_Witness ==
    /\ Returned /\ ret = <<0>>
    /\ Len(wire) > 256
    /\ wire[255].op = "packet" /\ wire[255].bytes[2] = 255
    /\ wire[256].op = "packet" /\ wire[256].bytes[2] = 0

\* C2: a non-empty source, NAK to the initial wait, then a timeout on every
\* acknowledgment read: the wire carries packet 1 MAX_RETRANS times,
\* byte for byte, then one cancel of three CAN bytes and nothing else, and
\* the sender returns -1.
C2_RetryExhausted ==
    (first = <<NAK>> /\ file.len > 0 /\ onlyTimeout) =>
        /\ Len(wire) <= MAX_RETRANS + 1
        /\ \A i \in 1..Len(wire) :
             IF i <= MAX_RETRANS
             THEN wire[i] = [op |-> "packet", bytes |-> ExpectedPacket(file, 1)]
             ELSE wire[i] = [op |-> "cancel", bytes |-> <<CAN, CAN, CAN>>]
        /\ (Returned /\ resp # <<>>) =>
             Len(wire) = MAX_RETRANS + 1 /\ ret = <<-1>>
        /\ pc \in {"start", "loop", "ret"}

C2_Witness ==
    /\ Returned /\ first = <<NAK>> /\ file.len > 0 /\ onlyTimeout
    /\ resp = <<-1>>
    /\ Len(wire) = MAX_RETRANS + 1

\* C3: the answer to a packet is CAN and the next byte is CAN: the sender
\* has returned -1, the last thing on the wire is the one ACK byte, right
\* after that packet, and the wire carries no cancel and no EOT.
C3_RemoteCancelled ==
    (resp = <<CAN>> /\ c = CAN) =>
        /\ Returned /\ ret = <<-1>>
        /\ Len(wire) >= 2
        /\ wire[Len(wire)] = [op |-> "byte", bytes |-> <<ACK>>]
        /\ wire[Len(wire) - 1].op = "packet"
        /\ Count("byte", <<ACK>>) = 1
        /\ Count("byte", <<EOT>>) = 0
        /\ \A i \in 1..Len(wire) : wire[i].op # "cancel"

C3_Witness ==
    /\ resp = <<CAN>> /\ c = CAN /\ Returned
    /\ Len(Packets) = 3
    /\ Count("byte", <<ACK>>) = 1

\* C4: against the remote that echoes the pattern and sends NAK after the
\* third one, no "unexpected byte" is ever reported, and a handshake that
\* returns with the overall timeout not exceeded returns 0 with the whole
\* pattern written exactly three times.
C4_EchoIgnored ==
    /\ ~unexpected
    /\ \A i \in 1..Len(wire) :
         wire[i] = [op |-> "pattern", bytes |-> boot_pattern]
    /\ Len(wire) <= 3
    /\ (bpc = "ret" /\ now - start <= timeout) =>
         bret = <<0>> /\ Len(wire) = 3 /\ done = 1

C4_Witness ==
    /\ bpc = "ret" /\ bret = <<0>> /\ Len(wire) = 3 /\ rxq = <<>>
    /\ now - start <= timeout

\* C5: every packet on the wire, first transmission or retry, is the 132
\* bytes SOH, seq, 255 - seq, 128 payload bytes, payload sum mod 256.
C5_PacketFormat ==
    \A i \in 1..Len(wire) :
        wire[i].op = "packet" => WellFormed(wire[i].bytes)

C5_Witness ==
    /\ Len(wire) >= 4
    /\ wire[1].op = "packet" /\ wire[2] = wire[1]
    /\ wire[3].op = "packet" /\ wire[3].bytes[2] = 2
    /\ wire[4] = wire[3]
    /\ WellFormed(wire[4].bytes)
    /\ file.len % buflen # 0

\* C6: over the acknowledging remote, when the loop is left the wire
\* carries ceil(L/128) packets, byte j of the source is payload byte
\* j mod 128 of packet j div 128 + 1, and the payload bytes past the
\* source's end are zero.
C6_PayloadIsSource ==
    pc \in {"finish", "end", "ret"} =>
        LET P == Packets
        IN  /\ Len(P) = NBlocks(file)
            /\ Len(P) * buflen >= file.len
            /\ Len(P) * buflen < file.len + buflen
            /\ \A j \in 0..(Len(P) * buflen - 1) :
                 P[(j \div buflen) + 1].bytes[4 + (j % buflen)] =
                     IF j < file.len THEN FileByte(file, j) ELSE 0

C6_Witness ==
    /\ Returned /\ ret = <<0>>
    /\ file.len = 2 * buflen + 1
    /\ file.seed = 255
    /\ Len(wire) = 4
    /\ wire[3].bytes[4] = FileByte(file, 2 * buflen)
    /\ wire[3].bytes[5] = 0

\* C7: once a packet failed to go out, or its answer failed to come in
\* with an I/O error, nothing more is written and the sender has returned
\* -1 without entering Finishing.
C7_AbortOnIoError ==
    failAt > 0 =>
        /\ Len(wire) = failAt
        /\ pc \notin {"finish", "end"}
        /\ Returned => ret = <<-1>>

\* C8: the wire carries at most MAX_RETRANS EOT bytes, one per read of
\* the Finishing loop; nothing but EOT follows the first EOT; the loop
\* goes on only while the last read was not ACK and ends at the first
\* ACK read; the sender returns 0 exactly when the last read was ACK, and
\* returns -1 from Finishing only after MAX_RETRANS EOTs.
C8_Finishing ==
    LET eots  == Count("byte", <<EOT>>)
        isEot == [i \in 1..Len(wire) |-> wire[i] = [op |-> "byte", bytes |-> <<EOT>>]]
    IN  /\ eots <= MAX_RETRANS
        /\ \A i \in 1..Len(wire) : \A j \in i..Len(wire) : isEot[i] => isEot[j]
        /\ pc = "finish" => eots = retry /\ (retry > 0 => c # ACK)
        /\ pc = "end" => c = ACK /\ eots = retry + 1
        /\ (Returned /\ eots > 0) =>
             /\ ret = <<0>> <=> c = ACK
             /\ c # ACK => eots = MAX_RETRANS
        /\ (Returned /\ ret = <<0>>) => eots > 0

C8_Witness ==
    /\ Returned /\ ret = <<0>> /\ failAt = 0
    /\ Count("byte", <<EOT>>) = MAX_RETRANS
    /\ Len(Packets) > 0

\* C9 as claimed: whatever byte but NAK and CAN comes first, the sender
\* cancels (three CAN bytes), sends no packet and returns -1.
C9_AnyOtherByteCancels ==
    (first # <<>> /\ first[1] \in (0..255) \ {NAK, CAN}) =>
        /\ Returned /\ ret = <<-1>>
        /\ wire = <<[op |-> "cancel", bytes |-> <<CAN, CAN, CAN>>]>>

\* C9, amended: whatever byte but NAK, CAN and 'C' comes first, the sender
\* cancels (three CAN bytes), sends no packet and returns -1; on 'C' it
\* returns -1 and writes nothing.
C9_OtherByteCancelsButC ==
    /\ (first # <<>> /\ first[1] \in (0..255) \ {NAK, CAN, CRC_C}) =>
         /\ Returned /\ ret = <<-1>>
         /\ wire = <<[op |-> "cancel", bytes |-> <<CAN, CAN, CAN>>]>>
    /\ first = <<CRC_C>> => Returned /\ ret = <<-1>> /\ wire = <<>>

C9_Witness ==
    /\ first = <<ACK>> /\ Returned
    /\ wire = <<[op |-> "cancel", bytes |-> <<CAN, CAN, CAN>>]>>

\* C10: a handshake that read NAK returns 0; one that returns 1 left the
\* inner loop on a read timeout with the overall timeout exceeded.
C10_NakMeansReady ==
    /\ (bpc = "ret" /\ done = 1) => bret = <<0>>
    /\ (bpc = "ret" /\ bret = <<1>>) => done = 0 /\ now - start > timeout

\* C11: the handshake, once started, returns (0, 1 or -1) whatever the
\* remote sends, unless a short write stops the process at the assert.
C11_HandshakeTerminates == <>(bpc \in {"ret", "abort"})

\* C12: the iteration that builds a packet runs with retry = 0, and a
\* sender that gave up (the cancel is the last write) sent the packet it
\* gave up on MAX_RETRANS times.
C12_RetryResetOnAck ==
    /\ (pc = "loop" /\ packetno # lastpacket) => retry = 0
    /\ (Returned /\ wire # <<>> /\ wire[Len(wire)].op = "cancel") =>
         /\ Len(wire) > MAX_RETRANS
         /\ \A i \in (Len(wire) - MAX_RETRANS)..(Len(wire) - 1) :
              wire[i].op = "packet" /\ wire[i] = wire[Len(wire) - 1]

\* The process is over: exit(1), main's return, or the failed assert
Ended == mpc \in {"exit", "returned"} \/ bpc = "abort"

\* C13: when the process is over no descriptor is still open.
C13_DescriptorsClosed ==
    Ended => tty_fd # "open" /\ file_fd # "open"

\* C14: packetno is 1 when the loop is entered; a step of the loop leaves
\* it alone or adds 1, and adds 1 exactly when it sent the whole packet
\* and the answer read was ACK; the read offset of the source moves only
\* in an iteration that builds a packet, never in one that resends.
C14_PacketnoOnlyOnAck ==
    [][ /\ (pc = "start" /\ pc' = "loop") => packetno' = 1
        /\ pc = "loop" =>
             /\ packetno' \in {packetno, packetno + 1}
             /\ packetno' = packetno + 1 <=>
                    /\ Len(wire') = Len(wire) + 1
                    /\ wire'[Len(wire')].op = "packet"
                    /\ resp' = <<ACK>>
             /\ packetno = lastpacket => fpos' = fpos
             /\ resp' \in {<<-1>>, <<NAK>>, <<CAN>>, <<255>>} =>
                    packetno' = packetno
      ]_vars

C14_Witness ==
    /\ pc = "loop" /\ packetno = 2 /\ lastpacket = 1
    /\ resp = <<ACK>> /\ Len(Packets) = 4
    /\ fpos = file.len /\ file.len > 0

\* C15: in the loop lastpacket is packetno (the packet is built and will be
\* resent as it is) or packetno - 1 (the next one will be built); the
\* source has been read up to the end of block lastpacket and no further;
\* the newest packet on the wire carries the block its sequence byte names
\* and is the one before it again or carries the next block; and when the
\* sender has returned, every packet on the wire carries the block its
\* sequence byte names, the first carries block 1, and each next one is
\* the same bytes again or carries the next block.
C15_BuildOnceResendVerbatim ==
    LET P == Packets
        n == Len(P)
    IN  /\ pc = "loop" =>
             /\ lastpacket \in {packetno - 1, packetno}
             /\ fpos = Min(lastpacket * buflen, file.len)
             /\ lastpacket = packetno =>
                    SubSeq(packet, 1, buflen + 4) = ExpectedPacket(file, packetno)
        /\ n > 0 =>
             /\ P[1].bytes[2] = 1 /\ P[n].bytes[2] = lastpacket
             /\ P[n].bytes = ExpectedPacket(file, P[n].bytes[2])
        /\ n > 1 =>
             \/ P[n].bytes = P[n - 1].bytes
             \/ P[n].bytes[2] = P[n - 1].bytes[2] + 1
        /\ Returned =>
             /\ \A i \in 1..n : P[i].bytes = ExpectedPacket(file, P[i].bytes[2])
             /\ \A i \in 1..(n - 1) :
                  \/ P[i + 1].bytes = P[i].bytes
                  \/ P[i + 1].bytes[2] = P[i].bytes[2] + 1

C15_Witness ==
    /\ Returned /\ ret = <<0>>
    /\ file.len % buflen # 0
    /\ Len(Packets) = 5
    /\ wire[2] = wire[1]
    /\ wire[3].bytes[2] = 2 /\ wire[4] = wire[3] /\ wire[5] = wire[3]
    /\ wire[3].bytes # wire[1].bytes

\* C16: the read of the byte after a CAN (in wait_for_nak and in the
\* sending loop) and the read after an EOT are given one second.
C16_OneSecondReads ==
    lastread.site \in {"wait_for_nak_can", "loop_can", "finishing"} =>
        lastread.us = ONE_SECOND_US

\* C17: once a write of the pattern failed or was short, or a drain
\* failed, the handshake has returned -1 and xmodem_send is never started.
C17_WriteFailureIsChannelFailure ==
    (\/ wrote # <<>> /\ wrote[1] # Len(boot_pattern)
     \/ drained # <<>> /\ drained[1] < 0) =>
        /\ bpc = "ret" /\ bret = <<-1>>
        /\ pc = "idle"

\* Every block of the source went out whole and was ACKed, in order, and
\* the read that followed the last block found the source at its end.
AllDelivered ==
    LET P == SelectSeq(Packets, LAMBDA e : Len(e.bytes) = buflen + 4)
    IN  /\ fpos = file.len
        /\ lastpacket = NBlocks(file)
        /\ packetno = NBlocks(file) + 1
        /\ \A k \in 1..NBlocks(file) :
             \E i \in 1..Len(P) : P[i].bytes = ExpectedPacket(file, k)
        /\ \A i \in 1..(Len(P) - 1) : P[i].bytes[2] <= P[i + 1].bytes[2]

\* C18: an EOT is written only when every block was delivered, and so is
\* 0 returned.
C18_FinishingOnlyAfterAll ==
    /\ (pc \in {"finish", "end"} \/ Count("byte", <<EOT>>) > 0) => AllDelivered
    /\ (Returned /\ ret = <<0>>) => AllDelivered

\* C19: a packet is on the wire only if the first byte read was NAK, and
\* after any other outcome of the first read xmodem_send has returned -1
\* with no packet written.
C19_FirstPacketOnlyAfterNak ==
    /\ Len(Packets) > 0 => first = <<NAK>>
    /\ (first # <<>> /\ first # <<NAK>>) =>
         Returned /\ ret = <<-1>> /\ Len(Packets) = 0

\* C20: xmodem_send returns, whatever the remote answers; the packet
\* transmissions on the wire are at most MAX_RETRANS for each block of
\* the source, and the EOT bytes at most MAX_RETRANS.
C20_SenderTerminates ==
    /\ <>Returned
    /\ [](/\ Len(Packets) <= MAX_RETRANS * NBlocks(file)
          /\ Count("byte", <<EOT>>) <= MAX_RETRANS)

C20_Witness ==
    /\ Returned /\ ret = <<-1>>
    /\ Len(Packets) = MAX_RETRANS * NBlocks(file)
    /\ Count("byte", <<EOT>>) = MAX_RETRANS

====
